---- MODULE Spec2Model ----
(***************************************************************************)
(* TALMID static roster site: the page script (three variants of app.js),  *)
(* modelled as a state machine of one page load: main, loadAll with its    *)
(* two concurrent requests, the session cache, the fetch watchdog, the     *)
(* three render functions and the DOM they write.  Two further             *)
(* specifications over the same state follow the successive page loads of  *)
(* one browser session, and the click handler of installFastNav.           *)
(*                                                                         *)
(* Strings that the script takes apart or encodes (keys, ids, hrefs) are   *)
(* sequences of one-character strings; display strings are plain strings.  *)
(* A JSON value that may be null is a record with a kind field.            *)
(* Time is in milliseconds.                                                *)
(***************************************************************************)
EXTENDS Integers, Sequences, FiniteSets, TLC

VARIABLES
  variant,      \* which app.js runs: "ttl", "session" or "plain"
  pc,           \* position of main / loadAll
  now,          \* Date.now()
  ticks,        \* number of clock steps taken (bounded)
  storage,      \* window.sessionStorage: key -> item
  storageWorks, \* FALSE: sessionStorage access throws (disabled / private mode)
  req,          \* the two requests of loadAll: "cfg", "data" -> state
  timer,        \* the watchdog timers of fetchWithTimeout
  bust,         \* cache-bust token appended to both URLs (0: none)
  loadResult,   \* what loadAll returned, and from where
  loadStart,    \* when loadAll started, and the TTL cache item the session held then
  dom,          \* the page's elements
  inputs,       \* page marker, query string and protocol main read
  outcome,      \* what main did: render function run, failure caught, ...
  log,          \* history: page loads of the session, cache lookups and writes of
                \* this load, the tokens getSessionBust returned in the session,
                \* the pair the session last got from the network
  nav,          \* installFastNav's click handler: pending timers, last click,
                \* the address the page is navigating to
  host          \* the machine run.ps1 runs on: PID file, processes, runs of the script

vars == <<variant, pc, now, ticks, storage, storageWorks, req, timer, bust,
          loadResult, loadStart, dom, inputs, outcome, log, nav, host>>

----------------------------------------------------------------------------
(* Bounds of the model *)

\* number of clock steps in one page load
MaxTicks == 3
\* length of one clock step, in ms
TickMs == 6000
\* Date.now() when the page load starts
Now0 == 200000
\* number of page loads in one browser session
MaxLoads == 3
\* number of clicks on one page
MaxClicks == 2
\* number of runs of run.ps1
MaxRuns == 2
\* number of process ids of the machine
MaxPid == 2
\* length of one clock step while a click's navigation is pending, in ms
NavTickMs == 60

(* Program constants *)

FETCH_TIMEOUT_MS == 12000
SESSION_CACHE_TTL_MS == 90000
SESSION_BUST_TTL_MS == 600000

SESSION_CACHE_KEY == "talmid_json_cache_v1"
SESSION_BUST_KEY == "talmid_bust_v1"
CACHE_CFG_KEY == "talmid__cfg__v1"
CACHE_DATA_KEY == "talmid__data__v1"

Variants == {"ttl", "session", "plain"}
StorageKeys == {SESSION_CACHE_KEY, SESSION_BUST_KEY, CACHE_CFG_KEY, CACHE_DATA_KEY}

\* the messages of showError
MSG_GRADE_NOT_FOUND == "grade not found"
MSG_GROUP_NOT_FOUND == "group not found"
MSG_MISSING_GRADE == "missing grade in address"
MSG_MISSING_DETAILS == "missing details in address"
MSG_UNSUPPORTED == "page not supported"
MSG_LOCAL == "cannot load local data; open through a local server"
MSG_RETRY == "error loading data; try reloading the page"

----------------------------------------------------------------------------
(* Documents the server can hold *)

NullDoc == [kind |-> "null"]

CfgDoc == [kind |-> "obj", title |-> "school", subtitle |-> "roster", managedBy |-> "staff"]

RosterA ==
  [kind |-> "obj",
   grades |-> <<
     [key |-> <<"z">>, label |-> "grade Z",
      groups |-> << [id |-> <<"a">>, name |-> "Z group A", teacher |-> "T1",
                     students |-> <<"s1", "s2", "s3">>],
                    [id |-> <<"b">>, name |-> "Z group B", teacher |-> "T2",
                     students |-> <<>>] >>],
     [key |-> <<"h", "&">>, label |-> "grade H",
      groups |-> << [id |-> <<"a">>, name |-> "H group A", teacher |-> "T3",
                     students |-> <<"s4">>] >>] >>]

RosterB ==
  [kind |-> "obj",
   grades |-> <<
     [key |-> <<"t">>, label |-> "grade T",
      groups |-> << [id |-> <<"b">>, name |-> "T group B", teacher |-> "T4",
                     students |-> <<"s5", "s6">>] >>],
     [key |-> <<"z">>, label |-> "grade Z", groups |-> <<>>] >>]

\* the three grades of the school, in the order of the home page; the groups of
\* grade z are both empty
RosterC ==
  [kind |-> "obj",
   grades |-> <<
     [key |-> <<"z">>, label |-> "grade Z",
      groups |-> << [id |-> <<"a">>, name |-> "Z group A", teacher |-> "T1",
                     students |-> <<>>],
                    [id |-> <<"b">>, name |-> "Z group B", teacher |-> "T2",
                     students |-> <<>>] >>],
     [key |-> <<"h">>, label |-> "grade H",
      groups |-> << [id |-> <<"a">>, name |-> "H group A", teacher |-> "T3",
                     students |-> <<"s7", "s8">>] >>],
     [key |-> <<"t">>, label |-> "grade T",
      groups |-> << [id |-> <<"a">>, name |-> "T group A", teacher |-> "T4",
                     students |-> <<"s9">>],
                    [id |-> <<"b">>, name |-> "T group B", teacher |-> "T5",
                     students |-> <<"s10", "s11">>] >>] >>]

CfgDocs == {CfgDoc, NullDoc}
DataDocs == {RosterA, RosterB, RosterC, NullDoc}

----------------------------------------------------------------------------
(* Small helpers *)

RECURSIVE SumSeq(_)
SumSeq(s) == IF s = <<>> THEN 0 ELSE Head(s) + SumSeq(Tail(s))

RECURSIVE FlatSeq(_)
FlatSeq(ss) == IF ss = <<>> THEN <<>> ELSE Head(ss) \o FlatSeq(Tail(ss))

EncodeChar(c) ==
  CASE c = "&" -> <<"%", "2", "6">>
    [] c = "%" -> <<"%", "2", "5">>
    [] c = "=" -> <<"%", "3", "D">>
    [] OTHER -> <<c>>

encodeURIComponent(s) == FlatSeq([i \in 1..Len(s) |-> EncodeChar(s[i])])

\* the href property of an anchor: its href attribute resolved against the page URL
ResolveHref(href) == <<"http://site/">> \o href

----------------------------------------------------------------------------
(* The page: elements, and the functions that write them *)

Elements ==
  {"#error", "#cfg-title", "#cfg-subtitle", "#cfg-managed", "#grade-buttons",
   "#school-total", "#grade-title", "#grade-subtitle", "#groups", "#back",
   "#group-title", "#group-subtitle", "#students", "#group-total",
   "#clock-time", "#clock-date"}

\* whether document.querySelector finds the element
qs(sel) == sel \in Elements

setGradeAccent(d, gradeKey) == [d EXCEPT !.dataGrade = gradeKey]

showError(d, message) ==
  IF ~qs("#error") THEN d
  ELSE [d EXCEPT !.errorHidden = FALSE, !.errorText = message]

hideError(d) ==
  IF ~qs("#error") THEN d
  ELSE [d EXCEPT !.errorHidden = TRUE, !.errorText = ""]

markEntering(d) == [d EXCEPT !.classes = @ \cup {"is-entering"}]

\* markReady only schedules the animation-frame callback
markReady(d) == [d EXCEPT !.rafPending = TRUE]

\* one link element appended to head, unless the href is empty or already hinted
prefetchOne(d, href) ==
  IF href = <<>> \/ (\E i \in 1..Len(d.prefetch) : d.prefetch[i] = href)
    THEN d
    ELSE [d EXCEPT !.prefetch = Append(@, href)]

RECURSIVE prefetch(_, _)
prefetch(d, urls) ==
  IF urls = <<>> THEN d
  ELSE prefetch(prefetchOne(d, Head(urls)), Tail(urls))

startHomeClock(d) ==
  IF ~qs("#clock-time") \/ ~qs("#clock-date") THEN d
  ELSE [d EXCEPT !.clockRunning = TRUE]

----------------------------------------------------------------------------
(* Aggregator and lookups *)

\* mutant: the groups are counted instead of their students
sumStudentsInGrade_CountGroups(grade) == Len(grade.groups)

sumStudentsInGrade(grade) ==
  SumSeq([i \in 1..Len(grade.groups) |-> Len(grade.groups[i].students)])

\* mutant: the accumulator is dropped, so the total is the last grade's size
sumAllStudents_LastGrade(data) ==
  IF data.grades = <<>> THEN 0
  ELSE sumStudentsInGrade(data.grades[Len(data.grades)])

sumAllStudents(data) ==
  SumSeq([i \in 1..Len(data.grades) |-> sumStudentsInGrade(data.grades[i])])

\* index of the grade in data.grades, 0 for null
findGrade(data, gradeKey) ==
  IF \E i \in 1..Len(data.grades) : data.grades[i].key = gradeKey
    THEN CHOOSE i \in 1..Len(data.grades) :
           /\ data.grades[i].key = gradeKey
           /\ \A j \in 1..(i - 1) : data.grades[j].key # gradeKey
    ELSE 0

\* index of the group in grade.groups, 0 for null
findGroup(grade, groupId) ==
  IF \E i \in 1..Len(grade.groups) : grade.groups[i].id = groupId
    THEN CHOOSE i \in 1..Len(grade.groups) :
           /\ grade.groups[i].id = groupId
           /\ \A j \in 1..(i - 1) : grade.groups[j].id # groupId
    ELSE 0

---------------------------------------------------------------------------------------------------------------------------------------------------
(* View renderer.  A render function returns the page it leaves and whether *)
(* it threw: a null document makes the first property read of it throw, and *)
(* what was written before the throw stays written.                         *)

Returned(d) == [dom |-> d, threw |-> FALSE]
Thrown(d) == [dom |-> d, threw |-> TRUE]

GradeHref(key) == <<"grade.html?g=">> \o encodeURIComponent(key)

GroupHref(gradeKey, groupId) ==
  <<"group.html?g=">> \o encodeURIComponent(gradeKey)
    \o <<"&group=">> \o encodeURIComponent(groupId)

\* the three grades the home page lists
HomeGradeKeys == << <<"z">>, <<"h">>, <<"t">> >>

\* mutant: an entry whose grade the roster lacks still shows the count of the
\* first grade
HomeEntryOf_FirstGrade(data, key, gi) ==
  [dataGrade |-> key,
   href |-> GradeHref(key),
   title |-> IF gi # 0 THEN data.grades[gi].label ELSE "grade",
   count |-> IF gi # 0 THEN sumStudentsInGrade(data.grades[gi])
             ELSE IF data.grades # <<>> THEN sumStudentsInGrade(data.grades[1]) ELSE 0]

HomeEntryOf(data, key, gi) ==
  [dataGrade |-> key,
   href |-> GradeHref(key),
   title |-> IF gi # 0 THEN data.grades[gi].label ELSE "grade",
   count |-> IF gi # 0 THEN sumStudentsInGrade(data.grades[gi]) ELSE 0]

HomeEntry(data, key) == HomeEntryOf(data, key, findGrade(data, key))

\* renderHome from the grade buttons on
renderHomeButtons(d, data) ==
  IF ~qs("#grade-buttons") THEN Returned(d)
  ELSE IF data.kind = "null" THEN Thrown([d EXCEPT !.gradeButtons = <<>>])
  ELSE Returned(
         [prefetch([d EXCEPT !.schoolTotal =
                               IF qs("#school-total") THEN <<sumAllStudents(data)>> ELSE @],
                   [i \in 1..Len(HomeGradeKeys) |-> GradeHref(HomeGradeKeys[i])])
            EXCEPT !.gradeButtons =
                     [i \in 1..Len(HomeGradeKeys) |-> HomeEntry(data, HomeGradeKeys[i])]])

renderHome(d, cfg, data) ==
  IF cfg.kind = "null" THEN Thrown(setGradeAccent(d, <<>>))
  ELSE renderHomeButtons(
         [setGradeAccent(d, <<>>) EXCEPT
            !.cfgTitle = IF qs("#cfg-title") THEN cfg.title ELSE @,
            !.cfgSubtitle = IF qs("#cfg-subtitle") THEN cfg.subtitle ELSE @,
            !.cfgManaged = IF qs("#cfg-managed") THEN cfg.managedBy ELSE @],
         data)

GroupCard(gradeKey, grp) ==
  [href |-> GroupHref(gradeKey, grp.id),
   name |-> grp.name,
   teacher |-> grp.teacher,
   count |-> Len(grp.students)]

GroupCards(gradeKey, grade) ==
  [i \in 1..Len(grade.groups) |-> GroupCard(gradeKey, grade.groups[i])]

\* the last statement of renderGrade and renderGroup: document.title = cfg.title
SetTitle(d, cfg) ==
  IF cfg.kind = "null" THEN Thrown(d) ELSE Returned([d EXCEPT !.title = cfg.title])

\* renderGrade from the groups region on
renderGradeGroups(d, cfg, cards) ==
  IF ~qs("#groups") THEN Returned(d)
  ELSE SetTitle(
         [prefetch([d EXCEPT !.groups = cards],
                   [i \in 1..Len(cards) |-> ResolveHref(cards[i].href)])
            EXCEPT !.back = IF qs("#back") THEN <<"index.html">> ELSE @],
         cfg)

\* renderGrade once the grade is found
renderGradeFound(d, cfg, gradeKey, grade) ==
  renderGradeGroups(
    [d EXCEPT
       !.gradeTitle = IF qs("#grade-title") THEN grade.label ELSE @,
       !.gradeSubtitle = IF qs("#grade-subtitle") THEN <<sumStudentsInGrade(grade)>> ELSE @],
    cfg, GroupCards(gradeKey, grade))

\* mutant: the back-link is set before the grade is looked up
renderGradeAt_BackFirst(d, cfg, data, gradeKey, gi) ==
  IF gi = 0
    THEN Returned([showError(d, MSG_GRADE_NOT_FOUND) EXCEPT !.back = <<"index.html">>])
    ELSE renderGradeFound(d, cfg, gradeKey, data.grades[gi])

\* renderGrade after setGradeAccent; gi is what findGrade returned
renderGradeAt(d, cfg, data, gradeKey, gi) ==
  IF gi = 0 THEN Returned(showError(d, MSG_GRADE_NOT_FOUND))
  ELSE renderGradeFound(d, cfg, gradeKey, data.grades[gi])

renderGrade(d, cfg, data, gradeKey) ==
  IF data.kind = "null" THEN Thrown(setGradeAccent(d, gradeKey))
  ELSE renderGradeAt(setGradeAccent(d, gradeKey), cfg, data, gradeKey,
                     findGrade(data, gradeKey))

StudentRow(students, i) == [num |-> i, name |-> students[i]]

\* mutant: the table is not emptied before the rows are appended
StudentRows_Append(old, students) ==
  old \o [i \in 1..Len(students) |-> [num |-> i, name |-> students[i]]]

\* the rows of the students table after renderGroup: the table is emptied, then
\* one row per student is appended
StudentRows(old, students) == [i \in 1..Len(students) |-> StudentRow(students, i)]

\* the back-link of the group page
GroupBackHref(gradeKey) == GradeHref(gradeKey)

\* renderGroup once the group is found
renderGroupFound(d, cfg, gradeKey, grp) ==
  IF ~qs("#students")
    THEN Returned([d EXCEPT
                     !.groupTitle = IF qs("#group-title") THEN grp.name ELSE @,
                     !.groupSubtitle = IF qs("#group-subtitle") THEN grp.teacher ELSE @])
    ELSE SetTitle(
           [d EXCEPT
              !.groupTitle = IF qs("#group-title") THEN grp.name ELSE @,
              !.groupSubtitle = IF qs("#group-subtitle") THEN grp.teacher ELSE @,
              !.students = StudentRows(@, grp.students),
              !.groupTotal = IF qs("#group-total") THEN <<Len(grp.students)>> ELSE @,
              !.back = IF qs("#back") THEN GroupBackHref(gradeKey) ELSE @],
           cfg)

\* mutant: a missing group is reported as a missing grade
renderGroupIn_GradeMessage(d, cfg, gradeKey, grade, ri) ==
  IF ri = 0 THEN Returned(showError(d, MSG_GRADE_NOT_FOUND))
  ELSE renderGroupFound(d, cfg, gradeKey, grade.groups[ri])

\* renderGroup once the grade is found; ri is what findGroup returned
renderGroupIn(d, cfg, gradeKey, grade, ri) ==
  IF ri = 0 THEN Returned(showError(d, MSG_GROUP_NOT_FOUND))
  ELSE renderGroupFound(d, cfg, gradeKey, grade.groups[ri])

\* renderGroup after setGradeAccent; gi is what findGrade returned
renderGroupAt(d, cfg, data, gradeKey, groupId, gi) ==
  IF gi = 0 THEN Returned(showError(d, MSG_GRADE_NOT_FOUND))
  ELSE renderGroupIn(d, cfg, gradeKey, data.grades[gi],
                     findGroup(data.grades[gi], groupId))

renderGroup(d, cfg, data, gradeKey, groupId) ==
  IF data.kind = "null" THEN Thrown(setGradeAccent(d, gradeKey))
  ELSE renderGroupAt(setGradeAccent(d, gradeKey), cfg, data, gradeKey, groupId,
                     findGrade(data, gradeKey))

-----
(* Session storage *)

NoItem == [kind |-> "none", val |-> NullDoc]
\* an item whose text is not JSON
TextItem == [kind |-> "text", val |-> NullDoc]
\* JSON.stringify(value), as stored
JsonItem(value) == [kind |-> "json", val |-> value]

CacheEntry(tsType, ts, cfg, data) ==
  [kind |-> "obj", tsType |-> tsType, ts |-> ts, cfg |-> cfg, data |-> data]

BustEntry(v, ts) ==
  [kind |-> "obj", vType |-> "number", v |-> v, tsType |-> "number", ts |-> ts]

\* null on a missing item, on text that does not parse, and when storage throws
readSessionJSON(st, works, key) ==
  IF ~works THEN NullDoc
  ELSE IF st[key].kind = "json" THEN st[key].val
  ELSE NullDoc

\* the storage after the write; a write that throws is ignored
writeSessionJSON(st, works, key, value) ==
  IF ~works THEN st
  ELSE [st EXCEPT ![key] = JsonItem(value)]

\* mutant: a token exactly as old as its lifetime counts as expired
getSessionBust_Strict(st, works, t) ==
  LET cached == readSessionJSON(st, works, SESSION_BUST_KEY) IN
  IF /\ cached.kind = "obj"
     /\ cached.vType = "number"
     /\ cached.tsType = "number"
     /\ t - cached.ts < SESSION_BUST_TTL_MS
    THEN [v |-> cached.v, storage |-> st]
    ELSE [v |-> t,
          storage |-> writeSessionJSON(st, works, SESSION_BUST_KEY, BustEntry(t, t))]

\* the token, and the storage after the call
getSessionBust(st, works, t) ==
  LET cached == readSessionJSON(st, works, SESSION_BUST_KEY) IN
  IF /\ cached.kind = "obj"
     /\ cached.vType = "number"
     /\ cached.tsType = "number"
     /\ t - cached.ts <= SESSION_BUST_TTL_MS
    THEN [v |-> cached.v, storage |-> st]
    ELSE [v |-> t,
          storage |-> writeSessionJSON(st, works, SESSION_BUST_KEY, BustEntry(t, t))]

\* a document read back from the cache counts when it is truthy
Truthy(doc) == doc.kind # "null"

\* mutant: an entry exactly as old as the TTL counts as expired
CacheHit_Strict(cached, t) ==
  /\ cached.kind = "obj"
  /\ cached.tsType = "number"
  /\ Truthy(cached.cfg)
  /\ Truthy(cached.data)
  /\ t - cached.ts < SESSION_CACHE_TTL_MS

\* the condition under which the TTL variant of loadAll answers from the cache
CacheHit(cached, t) ==
  /\ cached.kind = "obj"
  /\ cached.tsType = "number"
  /\ Truthy(cached.cfg)
  /\ Truthy(cached.data)
  /\ t - cached.ts <= SESSION_CACHE_TTL_MS

\* the session variant: both items present and both parse
SessionCacheHit(st, works) ==
  /\ works
  /\ st[CACHE_CFG_KEY].kind = "json"
  /\ st[CACHE_DATA_KEY].kind = "json"

\* mutant: a hit stores the entry again with the time of the hit (a sliding TTL)
CacheAfterHit_Slides(v, st, works, t, cached) ==
  IF v = "ttl"
    THEN writeSessionJSON(st, works, SESSION_CACHE_KEY,
                          CacheEntry("number", t, cached.cfg, cached.data))
    ELSE st

\* the storage after loadAll has answered from the cache: it returns the cached
\* pair and writes nothing
CacheAfterHit(v, st, works, t, cached) == st

----------------------------------------------------------------------------
(* loadAll *)

Requests == {"cfg", "data"}

NoResult == [kind |-> "none", from |-> "none", cfg |-> NullDoc, data |-> NullDoc, error |-> "none"]
Pair(from, cfg, data) ==
  [kind |-> "pair", from |-> from, cfg |-> cfg, data |-> data, error |-> "none"]
Failure(error) ==
  [kind |-> "error", from |-> "none", cfg |-> NullDoc, data |-> NullDoc, error |-> error]

Unparsable == [kind |-> "unparsable"]

Disarmed == [armed |-> FALSE, at |-> 0]

\* the watchdog of fetchWithTimeout, armed when the request is issued
ArmTimer(v, t) ==
  IF v = "ttl" THEN [armed |-> TRUE, at |-> t + FETCH_TIMEOUT_MS] ELSE Disarmed

\* fetchWithTimeout's finally: the watchdog is cleared as soon as fetch settles,
\* that is when the response (status and headers) is there or the request failed
TimerAfterSettle(tm) == Disarmed

\* mutant: the data response's status is not checked
ResponseCheck_CfgOnly(v, cfgOk, dataOk) ==
  IF ~cfgOk THEN "cfg fetch failed" ELSE "none"

\* the checks of the two responses: the failure loadAll throws, or "none"
ResponseCheck(v, cfgOk, dataOk) ==
  IF v = "ttl"
    THEN IF ~cfgOk THEN "cfg fetch failed"
         ELSE IF ~dataOk THEN "data fetch failed"
         ELSE "none"
    ELSE IF ~cfgOk \/ ~dataOk THEN "fetch failed" ELSE "none"

\* mutant: a body that does not parse is reported like a response that is not ok
ParseFailure_AsFetchFailed(v, r) ==
  IF v = "ttl"
    THEN IF r = "cfg" THEN "cfg fetch failed" ELSE "data fetch failed"
    ELSE "fetch failed"

\* the failure thrown when a body does not parse
ParseFailure(v, r) ==
  IF v = "ttl"
    THEN IF r = "cfg" THEN "cfg json parse failed" ELSE "data json parse failed"
    ELSE "SyntaxError"

\* mutant: the session variant stores each document under the other's key
CacheWrite_Swapped(v, st, works, t0, cfg, data) ==
  CASE v = "ttl" ->
         writeSessionJSON(st, works, SESSION_CACHE_KEY, CacheEntry("number", t0, data, cfg))
    [] v = "session" ->
         IF ~works THEN st
         ELSE [st EXCEPT ![CACHE_CFG_KEY] = JsonItem(data), ![CACHE_DATA_KEY] = JsonItem(cfg)]
    [] OTHER -> st

\* the storage after loadAll has cached a freshly fetched pair
CacheWrite(v, st, works, t0, cfg, data) ==
  CASE v = "ttl" ->
         writeSessionJSON(st, works, SESSION_CACHE_KEY, CacheEntry("number", t0, cfg, data))
    [] v = "session" ->
         IF ~works THEN st
         ELSE [st EXCEPT ![CACHE_CFG_KEY] = JsonItem(cfg), ![CACHE_DATA_KEY] = JsonItem(data)]
    [] OTHER -> st

\* the variants of loadAll that keep a client-side cache
HasCache(v) == v \in {"ttl", "session"}

\* mutant: a cache write that throws is not caught, and loadAll fails with it
LoadAllReturn_WriteThrows(v, works, cfg, data) ==
  IF HasCache(v) /\ ~works THEN Failure("storage write failed")
  ELSE Pair("network", cfg, data)

\* what loadAll returns once both bodies are parsed: the cache write is inside a
\* try, so the pair is returned whether or not the write threw
LoadAllReturn(v, works, cfg, data) == Pair("network", cfg, data)

----------------------------------------------------------------------------
(* main *)

Absent == [present |-> FALSE, val |-> <<>>]
Given(v) == [present |-> TRUE, val |-> v]

\* URLSearchParams.get(name) || ""
ParamOrEmpty(p) == IF p.present THEN p.val ELSE <<>>

getParams(search) ==
  [gradeKey |-> ParamOrEmpty(search.g), groupId |-> ParamOrEmpty(search.group)]

\* mutant: a page without marker is taken for the home page
PageMarker_DefaultHome(attr) == IF attr.present THEN attr.val ELSE "home"

\* document.body.getAttribute("data-page") || ""
PageMarker(attr) == IF attr.present THEN attr.val ELSE ""

HasReadyMark(v) == v \in {"ttl", "session"}

Ready(v, d) == IF HasReadyMark(v) THEN markReady(d) ELSE d

\* mutant: the group page checks the grade key only
MissingParam_GradeOnly(page, p) ==
  page \in {"grade", "group"} /\ p.gradeKey = <<>>

\* whether the page kind lacks a parameter it requires
MissingParam(page, p) ==
  CASE page = "grade" -> p.gradeKey = <<>>
    [] page = "group" -> p.gradeKey = <<>> \/ p.groupId = <<>>
    [] OTHER -> FALSE

\* what main does with a render function's result: markReady unless it threw
AfterRender(v, r, ran) ==
  [dom |-> IF r.threw THEN r.dom ELSE Ready(v, r.dom), threw |-> r.threw, ran |-> ran]

\* an error shown by main itself, then markReady
MainError(v, d, message) ==
  [dom |-> Ready(v, showError(d, message)), threw |-> FALSE, ran |-> "none"]

\* startHomeClock runs after renderHome, in the TTL variant only
HomeClock(v, r) ==
  IF v = "ttl" /\ ~r.threw THEN [r EXCEPT !.dom = startHomeClock(@)] ELSE r

\* renderHome by variant: the variant without cache gives its entries no
\* data-grade attribute
HomeOf(v, r) ==
  IF v = "plain"
    THEN [r EXCEPT !.dom.gradeButtons =
                     [i \in 1..Len(@) |-> [@[i] EXCEPT !.dataGrade = <<>>]]]
    ELSE r

\* the dispatch on the page marker
MainPage(v, d, cfg, data, page, p) ==
  CASE page = "home" ->
         AfterRender(v, HomeClock(v, HomeOf(v, renderHome(d, cfg, data))), "home")
    [] page = "grade" ->
         IF MissingParam(page, p) THEN MainError(v, d, MSG_MISSING_GRADE)
         ELSE AfterRender(v, renderGrade(d, cfg, data, p.gradeKey), "grade")
    [] page = "group" ->
         IF MissingParam(page, p) THEN MainError(v, d, MSG_MISSING_DETAILS)
         ELSE AfterRender(v, renderGroup(d, cfg, data, p.gradeKey, p.groupId), "group")
    [] OTHER -> MainError(v, d, MSG_UNSUPPORTED)

\* the body of main's try block once loadAll has returned
MainTry(v, d, cfg, data, attr, search) ==
  MainPage(v, d, cfg, data, PageMarker(attr), getParams(search))

\* the message of main's catch block
CatchMessage(v, protocol) ==
  IF v = "ttl" THEN (IF protocol = "file:" THEN MSG_LOCAL ELSE MSG_RETRY)
  ELSE MSG_LOCAL

\* main's catch block
MainCatchBlock(v, d, protocol) == Ready(v, showError(d, CatchMessage(v, protocol)))

\* mutant: a failure of the try block is not caught
MainEnd_NoCatch(v, t, protocol, before, kind) ==
  [dom |-> t.dom,
   outcome |-> [ran |-> t.ran,
                threw |-> IF t.threw THEN kind ELSE "none",
                caught |-> FALSE,
                uncaught |-> t.threw,
                before |-> before]]

\* main's try/catch around t, the result of the try block: the page main leaves
\* and the record of what happened
MainEnd(v, t, protocol, before, kind) ==
  [dom |-> IF t.threw THEN MainCatchBlock(v, t.dom, protocol) ELSE t.dom,
   outcome |-> [ran |-> t.ran,
                threw |-> IF t.threw THEN kind ELSE "none",
                caught |-> t.threw,
                uncaught |-> FALSE,
                before |-> before]]

----------------------------------------------------------------------------
(* installFastNav.  An address is the record of its parts: origin ("" when the *)
(* href is relative), the path as its name and its extension, the query and   *)
(* the fragment; valid is FALSE for text that the URL constructor rejects.    *)

FAST_NAV_DELAY_MS == 60
FAST_NAV_DELAY_SESSION_MS == 120

\* the delay of the programmatic navigation, by variant
FastNavDelay(v) == IF v = "ttl" THEN FAST_NAV_DELAY_MS ELSE FAST_NAV_DELAY_SESSION_MS

Href(origin, path, query, hash) ==
  [valid |-> TRUE, origin |-> origin, path |-> path, query |-> query, hash |-> hash]

EmptyHref == Href("", <<>>, "", "")
InvalidHref == [EmptyHref EXCEPT !.valid = FALSE, !.origin = "http://["]

\* window.location of the page the script runs in
PageLocation == Href("http://site", <<"index", ".html">>, "", "")

\* no address: the page is not navigating
NoUrl == [EmptyHref EXCEPT !.valid = FALSE]

\* href === ""
IsEmptyHref(h) == h.valid /\ h.origin = "" /\ h.path = <<>> /\ h.query = "" /\ h.hash = ""

\* href.startsWith("#")
StartsWithHash(h) == h.valid /\ h.origin = "" /\ h.path = <<>> /\ h.query = "" /\ h.hash # ""

\* new URL(href, base), for an href the constructor accepts
ResolveUrl(h, base) ==
  IF h.origin # "" THEN h
  ELSE IF h.path # <<>> THEN [h EXCEPT !.origin = base.origin]
  ELSE [h EXCEPT !.origin = base.origin, !.path = base.path,
                 !.query = IF h.query # "" THEN h.query ELSE base.query]

\* url.pathname.endsWith(".html")
EndsWithHtml(url) == url.path # <<>> /\ url.path[Len(url.path)] = ".html"

Anchor(href, target, download) == [href |-> href, target |-> target, download |-> download]

GradeLink == Anchor(Href("", <<"grade", ".html">>, "?g=z", ""), "", FALSE)
BackLink == Anchor(Href("", <<"index", ".html">>, "", ""), "_self", FALSE)
AbsoluteLink == Anchor(Href("http://site", <<"group", ".html">>, "?g=z&group=a", ""), "", FALSE)
BlankLink == Anchor(Href("", <<"grade", ".html">>, "?g=z", ""), "_blank", FALSE)
DownloadLink == Anchor(Href("", <<"grade", ".html">>, "?g=z", ""), "", TRUE)
ExternalLink == Anchor(Href("https://other.example", <<"page", ".html">>, "", ""), "", FALSE)
FragmentLink == Anchor(Href("", <<>>, "", "#top"), "", FALSE)
EmptyLink == Anchor(EmptyHref, "", FALSE)
DataLink == Anchor(Href("", <<"data/data", ".json">>, "", ""), "", FALSE)
InvalidLink == Anchor(InvalidHref, "", FALSE)

Anchors ==
  {GradeLink, BackLink, AbsoluteLink, BlankLink, DownloadLink, ExternalLink,
   FragmentLink, EmptyLink, DataLink, InvalidLink}

\* a click with the primary button and no modifier key on an anchor
PrimaryClick(a) ==
  [onAnchor |-> TRUE, a |-> a, defaultPrevented |-> FALSE, button |-> 0,
   metaKey |-> FALSE, ctrlKey |-> FALSE, shiftKey |-> FALSE, altKey |-> FALSE]

\* the click events: a primary click on each anchor, and the clicks on a link to
\* a page of the site that differ from the primary click in one respect
ClickEvents ==
  {PrimaryClick(a) : a \in Anchors}
    \cup {[PrimaryClick(GradeLink) EXCEPT !.onAnchor = FALSE],
          [PrimaryClick(GradeLink) EXCEPT !.defaultPrevented = TRUE],
          [PrimaryClick(GradeLink) EXCEPT !.button = 1],
          [PrimaryClick(GradeLink) EXCEPT !.button = 2],
          [PrimaryClick(GradeLink) EXCEPT !.metaKey = TRUE],
          [PrimaryClick(GradeLink) EXCEPT !.ctrlKey = TRUE],
          [PrimaryClick(GradeLink) EXCEPT !.shiftKey = TRUE],
          [PrimaryClick(GradeLink) EXCEPT !.altKey = TRUE],
          [PrimaryClick(ExternalLink) EXCEPT !.ctrlKey = TRUE]}

\* mutant: the download attribute is not looked at
Intercepts_NoDownloadCheck(ev, loc) ==
  /\ ev.onAnchor
  /\ ~ev.defaultPrevented
  /\ ev.button = 0
  /\ ~(ev.metaKey \/ ev.ctrlKey \/ ev.shiftKey \/ ev.altKey)
  /\ ~(ev.a.target # "" /\ ev.a.target # "_self")
  /\ ~(IsEmptyHref(ev.a.href) \/ StartsWithHash(ev.a.href))
  /\ ev.a.href.valid
  /\ ResolveUrl(ev.a.href, loc).origin = loc.origin
  /\ EndsWithHtml(ResolveUrl(ev.a.href, loc))

\* the click handler up to ev.preventDefault(): TRUE when no early return is taken
Intercepts(ev, loc) ==
  /\ ev.onAnchor
  /\ ~ev.defaultPrevented
  /\ ev.button = 0
  /\ ~(ev.metaKey \/ ev.ctrlKey \/ ev.shiftKey \/ ev.altKey)
  /\ ~(ev.a.target # "" /\ ev.a.target # "_self")
  /\ ~ev.a.download
  /\ ~(IsEmptyHref(ev.a.href) \/ StartsWithHash(ev.a.href))
  /\ ev.a.href.valid
  /\ ResolveUrl(ev.a.href, loc).origin = loc.origin
  /\ EndsWithHtml(ResolveUrl(ev.a.href, loc))

\* the handler's state before any click
NoNav ==
  [clicks |-> 0, location |-> PageLocation, timers |-> {}, going |-> NoUrl,
   served |-> {},
   last |-> [ev |-> PrimaryClick(EmptyLink), prevented |-> FALSE]]

----------------------------------------------------------------------------
(* Inputs of one page load *)

AbsentAttr == [present |-> FALSE, val |-> ""]
Attr(v) == [present |-> TRUE, val |-> v]

Markers == {AbsentAttr, Attr("home"), Attr("grade"), Attr("group"), Attr("print")}
GradeParams == {Absent, Given(<<>>), Given(<<"z">>), Given(<<"h", "&">>), Given(<<"x">>)}
GroupParams == {Absent, Given(<<>>), Given(<<"a">>), Given(<<"b">>), Given(<<"q">>)}
Protocols == {"file:", "http:"}

Unread == [read |-> FALSE, attr |-> AbsentAttr, search |-> [g |-> Absent, group |-> Absent],
           protocol |-> "http:"]

\* the cache entries a session can hold when the TTL variant starts
TtlItems ==
  {NoItem, TextItem, JsonItem(NullDoc),
   JsonItem(CacheEntry("number", Now0 - SESSION_CACHE_TTL_MS, CfgDoc, RosterB)),
   JsonItem(CacheEntry("number", Now0 - SESSION_CACHE_TTL_MS - 1, CfgDoc, RosterB)),
   JsonItem(CacheEntry("string", Now0, CfgDoc, RosterB)),
   JsonItem(CacheEntry("number", Now0, NullDoc, RosterB))}

PlaceholderRow == [num |-> 0, name |-> "placeholder"]

InitDom(rows) ==
  [errorHidden |-> FALSE, errorText |-> "noscript", classes |-> {}, dataGrade |-> <<>>,
   title |-> "page", cfgTitle |-> "", cfgSubtitle |-> "", cfgManaged |-> "",
   gradeButtons |-> <<>>, schoolTotal |-> <<>>, gradeTitle |-> "", gradeSubtitle |-> <<>>,
   groups |-> <<>>, prefetch |-> <<>>, back |-> <<"#">>, groupTitle |-> "",
   groupSubtitle |-> "", students |-> rows, groupTotal |-> <<>>,
   rafPending |-> FALSE, clockRunning |-> FALSE, navInstalled |-> FALSE]

NoOutcome(d) == [ran |-> "none", threw |-> "none", caught |-> FALSE, uncaught |-> FALSE,
                 before |-> d]

\* run.ps1 and its PID file: the data

Runs == 1..MaxRuns
Pids == 1..MaxPid

\* the first line of data\uvicorn.pid, as Get-Content | Select-Object -First 1
\* gives it: nothing (file empty, first line empty, file unreadable), text that
\* is not a number, or a process id
Blank == [kind |-> "blank", pid |-> 0]
Junk == [kind |-> "junk", pid |-> 0]
PidLine(n) == [kind |-> "pid", pid |-> n]

NoFile == [exists |-> FALSE, line |-> Blank]
FileWith(line) == [exists |-> TRUE, line |-> line]

\* $existingPid after lines 57-58: null when there is no PID file
ReadPidFile(pidFile) == IF pidFile.exists THEN pidFile.line ELSE Blank

\* Get-Process -Id $existingPid -ErrorAction SilentlyContinue: a process object
\* when a process with that id exists; text that is not a number fails the
\* parameter binding and leaves $p empty
GetProcess(existingPid, procs) ==
  existingPid.kind = "pid" /\ procs[existingPid.pid] # "free"

\* mutant: a PID file with a process id counts as a running server, alive or not
ServerRunning_FileOnly(existingPid, procs) == existingPid.kind = "pid"

\* the test of lines 59-61: run.ps1 reports a running server and exits
ServerRunning(existingPid, procs) ==
  existingPid.kind # "blank" /\ GetProcess(existingPid, procs)

\* one run of the script: where it is, what it read, the process it started;
\* named, started, wrote record what the run found and did (wrote: the PID file
\* as the run wrote it, NoFile when it has not written)
IdleRun == [pc |-> "idle", existingPid |-> Blank, proc |-> 0,
            named |-> FALSE, started |-> 0, wrote |-> NoFile]

NoHost == [pidFile |-> NoFile, procs |-> [n \in Pids |-> "free"], python |-> TRUE,
           run |-> [r \in Runs |-> IdleRun], overlap |-> FALSE]

\* the machine before the first run: what earlier runs of run.ps1 left (a server
\* that is alive is the one the PID file names), other processes, and a PID file
\* that may be missing, empty, damaged or stale; python is installed (the
\* environment run.ps1 activates comes with it)
Hosts ==
  {h \in {[NoHost EXCEPT !.pidFile = f, !.procs = ps] :
            f \in {NoFile} \cup {FileWith(l) : l \in {Blank, Junk} \cup {PidLine(n) : n \in Pids}},
            ps \in [Pids -> {"free", "server", "other"}]} :
     \A n \in Pids : h.procs[n] = "server" => h.pidFile = FileWith(PidLine(n))}

\* the history when the first page of a session starts to load
NoFetch == [some |-> FALSE, at |-> 0, cfg |-> NullDoc, data |-> NullDoc]
NoLog == [loads |-> 1, lookups |-> 0, writes |-> 0, tokens |-> <<>>, fetched |-> NoFetch]

Init ==
  /\ variant \in Variants
  /\ pc = "start"
  /\ now = Now0
  /\ ticks = 0
  /\ storageWorks \in BOOLEAN
  /\ storage \in [StorageKeys -> {NoItem}]
       \cup (IF variant = "ttl"
               THEN {[k \in StorageKeys |-> IF k = SESSION_CACHE_KEY THEN it ELSE NoItem] :
                       it \in TtlItems}
             ELSE IF variant = "session"
               THEN {[k \in StorageKeys |->
                        IF k = CACHE_CFG_KEY THEN c
                        ELSE IF k = CACHE_DATA_KEY THEN dt ELSE NoItem] :
                       c \in {NoItem, TextItem, JsonItem(CfgDoc)},
                       dt \in {NoItem, JsonItem(RosterA)}}
             ELSE {})
  /\ req = [r \in Requests |-> "idle"]
  /\ timer = [r \in Requests |-> Disarmed]
  /\ bust = 0
  /\ loadResult = NoResult
  /\ loadStart = [now |-> Now0, item |-> NoItem]
  /\ dom \in {InitDom(<<>>), InitDom(<<PlaceholderRow>>)}
  /\ inputs = Unread
  /\ outcome = NoOutcome(dom)
  /\ log = NoLog
  /\ nav = NoNav
  /\ host = NoHost

----------------------------------------------------------------------------
(* Actions *)

\* main up to the first await of loadAll: hideError, markEntering, installFastNav,
\* then loadAll's cache lookup and, on a miss, the two requests
MainStart ==
  /\ pc = "start"
  /\ LET d1 == hideError(dom)
         d2 == IF HasReadyMark(variant)
                 THEN [markEntering(d1) EXCEPT !.navInstalled = TRUE]
                 ELSE d1
         cached == IF variant = "ttl"
                     THEN readSessionJSON(storage, storageWorks, SESSION_CACHE_KEY)
                     ELSE NullDoc
         hit == CASE variant = "ttl" -> CacheHit(cached, now)
                  [] variant = "session" -> SessionCacheHit(storage, storageWorks)
                  [] OTHER -> FALSE
         b == IF variant = "ttl" THEN getSessionBust(storage, storageWorks, now)
              ELSE [v |-> 0, storage |-> storage]
     IN
     /\ dom' = d2
     /\ outcome' = NoOutcome(d2)
     /\ loadStart' = [now |-> now, item |-> storage[SESSION_CACHE_KEY]]
     /\ log' = [log EXCEPT
                  !.lookups = IF HasCache(variant) THEN @ + 1 ELSE @,
                  !.tokens = IF variant = "ttl" /\ ~hit
                               THEN Append(@, [at |-> now, v |-> b.v]) ELSE @]
     /\ IF hit
          THEN /\ loadResult' =
                    IF variant = "ttl" THEN Pair("cache", cached.cfg, cached.data)
                    ELSE Pair("cache", storage[CACHE_CFG_KEY].val, storage[CACHE_DATA_KEY].val)
               /\ pc' = "loaded"
               /\ storage' = CacheAfterHit(variant, storage, storageWorks, now, cached)
               /\ UNCHANGED <<req, timer, bust>>
          ELSE /\ loadResult' = NoResult
               /\ pc' = "fetching"
               /\ req' = [r \in Requests |-> "pending"]
               /\ timer' = [r \in Requests |-> ArmTimer(variant, now)]
               /\ bust' = b.v
               /\ storage' = b.storage
  /\ UNCHANGED <<nav, host, variant, now, ticks, storageWorks, inputs>>

\* fetch settles for one request: a response (successful or not) or a network error
FetchSettle(r, o) ==
  /\ pc = "fetching"
  /\ req[r] = "pending"
  /\ req' = [req EXCEPT ![r] = o]
  /\ timer' = [timer EXCEPT ![r] = TimerAfterSettle(@)]
  /\ UNCHANGED <<nav, log, host, variant, pc, now, ticks, storage, storageWorks, bust, loadResult,
                 loadStart, dom, inputs, outcome>>

\* the watchdog fires: controller.abort() rejects the pending fetch
TimerFire(r) ==
  /\ timer[r].armed
  /\ now >= timer[r].at
  /\ req[r] = "pending"
  /\ req' = [req EXCEPT ![r] = "aborted"]
  /\ timer' = [timer EXCEPT ![r] = Disarmed]
  /\ UNCHANGED <<nav, log, host, variant, pc, now, ticks, storage, storageWorks, bust, loadResult,
                 loadStart, dom, inputs, outcome>>

\* Promise.all has settled: rejected by the first request that fails, fulfilled
\* when both responses are there
JoinReady ==
  \/ \E r \in Requests : req[r] \in {"failed", "aborted"}
  \/ \A r \in Requests : req[r] \in {"ok", "notok"}

\* loadAll resumes after Promise.all: the rejection, or the checks of the two responses
LoadAllJoin ==
  /\ pc = "fetching"
  /\ JoinReady
  /\ IF \E r \in Requests : req[r] \in {"failed", "aborted"}
       THEN /\ loadResult' =
                 Failure(IF \E r \in Requests : req[r] = "aborted" /\
                              \A q \in Requests : req[q] # "failed"
                           THEN "AbortError" ELSE "TypeError")
            /\ pc' = "failed"
       ELSE LET e == ResponseCheck(variant, req["cfg"] = "ok", req["data"] = "ok") IN
            IF e # "none"
              THEN loadResult' = Failure(e) /\ pc' = "failed"
              ELSE loadResult' = NoResult /\ pc' = "readCfg"
  /\ UNCHANGED <<nav, log, host, variant, now, ticks, storage, storageWorks, req, timer, bust,
                 loadStart, dom, inputs, outcome>>

\* cfgRes.json() settles
ReadCfgBody(body) ==
  /\ pc = "readCfg"
  /\ IF body.kind = "unparsable"
       THEN loadResult' = Failure(ParseFailure(variant, "cfg")) /\ pc' = "failed"
       ELSE loadResult' = [NoResult EXCEPT !.cfg = body] /\ pc' = "readData"
  /\ UNCHANGED <<nav, log, host, variant, now, ticks, storage, storageWorks, req, timer, bust,
                 loadStart, dom, inputs, outcome>>

\* dataRes.json() settles; on success the pair is cached and returned
ReadDataBody(body) ==
  /\ pc = "readData"
  /\ IF body.kind = "unparsable"
       THEN /\ loadResult' = Failure(ParseFailure(variant, "data"))
            /\ pc' = "failed"
            /\ UNCHANGED <<storage, log>>
       ELSE /\ loadResult' = LoadAllReturn(variant, storageWorks, loadResult.cfg, body)
            /\ pc' = IF loadResult'.kind = "pair" THEN "loaded" ELSE "failed"
            /\ storage' = CacheWrite(variant, storage, storageWorks, loadStart.now,
                                     loadResult.cfg, body)
            /\ log' = [log EXCEPT
                         !.writes = IF HasCache(variant) THEN @ + 1 ELSE @,
                         !.fetched = IF loadResult'.kind = "pair"
                                       THEN [some |-> TRUE, at |-> loadStart.now,
                                             cfg |-> loadResult.cfg, data |-> body]
                                       ELSE @]
  /\ UNCHANGED <<nav, host, variant, now, ticks, storageWorks, req, timer, bust,
                 loadStart, dom, inputs, outcome>>

\* loadAll returned: the rest of main's try block, and its catch block when a
\* render function throws
MainDispatch(attr, g, group, protocol) ==
  /\ pc = "loaded"
  /\ LET e == MainEnd(variant,
                      MainTry(variant, dom, loadResult.cfg, loadResult.data, attr,
                              [g |-> g, group |-> group]),
                      protocol, dom, "render")
     IN dom' = e.dom /\ outcome' = e.outcome
  /\ inputs' = [read |-> TRUE, attr |-> attr, search |-> [g |-> g, group |-> group],
                protocol |-> IF outcome'.caught THEN protocol ELSE inputs.protocol]
  /\ pc' = "done"
  /\ UNCHANGED <<nav, log, host, variant, now, ticks, storage, storageWorks, req, timer, bust,
                 loadResult, loadStart>>

\* loadAll threw: main's catch block
MainCatch(protocol) ==
  /\ pc = "failed"
  /\ LET e == MainEnd(variant, [dom |-> dom, threw |-> TRUE, ran |-> "none"],
                      protocol, dom, "load")
     IN dom' = e.dom /\ outcome' = e.outcome
  /\ inputs' = [inputs EXCEPT !.protocol = protocol]
  /\ pc' = "done"
  /\ UNCHANGED <<nav, log, host, variant, now, ticks, storage, storageWorks, req, timer, bust,
                 loadResult, loadStart>>

\* the animation-frame callback of markReady
RafCallback ==
  /\ dom.rafPending
  /\ dom' = [dom EXCEPT !.rafPending = FALSE,
                        !.classes = (@ \ {"is-entering"}) \cup {"is-ready"}]
  /\ UNCHANGED <<nav, log, host, variant, pc, now, ticks, storage, storageWorks, req, timer, bust,
                 loadResult, loadStart, inputs, outcome>>

Min(a, b) == IF a <= b THEN a ELSE b

\* the earliest deadline among the armed watchdogs, or t when none is armed
NextDeadline(tm, t) ==
  IF \E r \in Requests : tm[r].armed
    THEN LET r0 == CHOOSE r \in Requests :
                     tm[r].armed /\ \A q \in Requests : tm[q].armed => tm[r].at <= tm[q].at
         IN Min(tm[r0].at, t)
    ELSE t

\* time passes while loadAll waits (the TTL variant alone reads the clock); a
\* watchdog that is due fires, and a settled Promise.all resumes loadAll, before
\* time moves on
Tick ==
  /\ variant = "ttl"
  /\ pc \in {"fetching", "readCfg", "readData"}
  /\ pc = "fetching" => ~JoinReady
  /\ ticks < MaxTicks
  /\ \A r \in Requests : timer[r].armed => now < timer[r].at
  /\ now' = NextDeadline(timer, now + TickMs)
  /\ ticks' = ticks + 1
  /\ UNCHANGED <<nav, log, host, variant, pc, storage, storageWorks, req, timer, bust, loadResult,
                 loadStart, dom, inputs, outcome>>

\* the pauses between two page loads of a session: none to speak of, the
\* lifetime of a cache entry, and the lifetime of a bust token
SessionGaps == {1, SESSION_CACHE_TTL_MS, SESSION_BUST_TTL_MS}

\* the user opens another page of the site (or reloads) in the same tab: the
\* document and everything the script holds are gone, the script runs again from
\* the top, and sessionStorage is what the session left in it
Navigate(gap) ==
  /\ pc # "start"
  /\ log.loads < MaxLoads
  /\ now' = now + gap
  /\ pc' = "start"
  /\ req' = [r \in Requests |-> "idle"]
  /\ timer' = [r \in Requests |-> Disarmed]
  /\ bust' = 0
  /\ loadResult' = NoResult
  /\ loadStart' = [now |-> now', item |-> NoItem]
  /\ dom' = InitDom(<<>>)
  /\ inputs' = Unread
  /\ outcome' = NoOutcome(dom')
  /\ log' = [log EXCEPT !.loads = @ + 1, !.lookups = 0, !.writes = 0]
  /\ nav' = NoNav
  /\ UNCHANGED <<host, variant, ticks, storage, storageWorks>>

\* the click handler of installFastNav, for one click event
Click(ev) ==
  /\ dom.navInstalled
  /\ pc # "unloaded"
  /\ nav.clicks < MaxClicks
  /\ IF Intercepts(ev, nav.location)
       THEN /\ dom' = [dom EXCEPT !.classes = @ \cup {"is-leaving"}]
            /\ nav' = [nav EXCEPT
                         !.clicks = @ + 1,
                         !.last = [ev |-> ev, prevented |-> TRUE],
                         !.timers = @ \cup {[id |-> nav.clicks + 1,
                                             at |-> now + FastNavDelay(variant),
                                             url |-> ResolveUrl(ev.a.href, nav.location)]}]
       ELSE /\ dom' = dom
            /\ nav' = [nav EXCEPT !.clicks = @ + 1,
                                  !.last = [ev |-> ev, prevented |-> FALSE]]
  /\ UNCHANGED <<log, host, variant, pc, now, ticks, storage, storageWorks, req, timer, bust,
                 loadResult, loadStart, inputs, outcome>>

\* the timeout callback of an intercepted click: window.location.href = url.href
\* starts the navigation; served records the clicks whose address it is
NavTimerFire(t) ==
  /\ pc # "unloaded"
  /\ t \in nav.timers
  /\ now >= t.at
  /\ nav' = [nav EXCEPT
               !.timers = @ \ {t},
               !.going = t.url,
               !.served = @ \cup {u.id : u \in {w \in nav.timers : w.url = t.url}}]
  /\ UNCHANGED <<log, host, variant, pc, now, ticks, storage, storageWorks, req, timer, bust,
                 loadResult, loadStart, dom, inputs, outcome>>

\* the navigation the script started commits: the browser replaces the document,
\* and the timers and callbacks of the old document are discarded with it
NavCommit ==
  /\ pc # "unloaded"
  /\ nav.going # NoUrl
  /\ pc' = "unloaded"
  /\ nav' = [nav EXCEPT !.timers = {}, !.location = nav.going, !.going = NoUrl]
  /\ timer' = [r \in Requests |-> Disarmed]
  /\ dom' = [dom EXCEPT !.rafPending = FALSE]
  /\ UNCHANGED <<log, host, variant, now, ticks, storage, storageWorks, req, bust,
                 loadResult, loadStart, inputs, outcome>>

\* time passes on a page with the click handler; a timeout that is due fires
\* before time moves on
NavTick ==
  /\ dom.navInstalled
  /\ pc # "unloaded"
  /\ ticks < MaxTicks \/ nav.timers # {}
  /\ \A t \in nav.timers : now < t.at
  /\ now' = IF \E t \in nav.timers : t.at <= now + NavTickMs
              THEN CHOOSE m \in {t.at : t \in nav.timers} :
                     \A t \in nav.timers : m <= t.at
              ELSE now + NavTickMs
  /\ ticks' = ticks + 1
  /\ UNCHANGED <<nav, log, host, variant, pc, storage, storageWorks, req, timer, bust, loadResult,
                 loadStart, dom, inputs, outcome>>

Next ==
  \/ MainStart
  \/ \E r \in Requests, o \in {"ok", "notok", "failed"} : FetchSettle(r, o)
  \/ \E r \in Requests : TimerFire(r)
  \/ LoadAllJoin
  \/ \E body \in CfgDocs \cup {Unparsable} : ReadCfgBody(body)
  \/ \E body \in DataDocs \cup {Unparsable} : ReadDataBody(body)
  \/ \E attr \in Markers, g \in GradeParams, group \in GroupParams, protocol \in Protocols :
       MainDispatch(attr, g, group, protocol)
  \/ \E protocol \in Protocols : MainCatch(protocol)
  \/ RafCallback
  \/ Tick

Spec == Init /\ [][Next]_vars

\* What the script and the browser's event loop guarantee: main and loadAll resume
\* once what they await has settled, due timers and animation frames fire, time
\* passes.  Nothing makes the network answer or finish a body: FetchSettle,
\* ReadCfgBody and ReadDataBody carry no fairness.
Fairness ==
  /\ WF_vars(MainStart)
  /\ WF_vars(\E r \in Requests : TimerFire(r))
  /\ WF_vars(LoadAllJoin)
  /\ WF_vars(\E attr \in Markers, g \in GradeParams, group \in GroupParams,
                protocol \in Protocols : MainDispatch(attr, g, group, protocol))
  /\ WF_vars(\E protocol \in Protocols : MainCatch(protocol))
  /\ WF_vars(RafCallback)
  /\ WF_vars(Tick)

FairSpec == Spec /\ Fairness

----------------------------------------------------------------------------
(* A browser session: successive page loads of the timeout variant in one tab *)

SessionInit ==
  /\ Init
  /\ variant = "ttl"
  /\ storage = [k \in StorageKeys |-> NoItem]
  /\ dom = InitDom(<<>>)

SessionNext ==
  \/ MainStart
  \/ \E r \in Requests, o \in {"ok", "failed"} : FetchSettle(r, o)
  \/ \E r \in Requests : TimerFire(r)
  \/ LoadAllJoin
  \/ \E body \in {CfgDoc} : ReadCfgBody(body)
  \/ \E body \in {RosterA, RosterB, Unparsable} : ReadDataBody(body)
  \/ \E attr \in {Attr("home")}, protocol \in {"http:"} :
       MainDispatch(attr, Absent, Absent, protocol)
  \/ \E protocol \in {"http:"} : MainCatch(protocol)
  \/ RafCallback
  \/ Tick
  \/ \E gap \in SessionGaps : Navigate(gap)

SessionSpec == SessionInit /\ [][SessionNext]_vars

----------------------------------------------------------------------------
(* The click handler on a page whose script has started.  The load goes on *)
(* beside it (here: the requests fail and main ends in its catch block);    *)
(* the two share the class list of the body and nothing else.               *)

NavInit ==
  /\ Init
  /\ variant \in {"ttl", "session"}
  /\ storage = [k \in StorageKeys |-> NoItem]
  /\ storageWorks
  /\ dom = InitDom(<<>>)

NavNext ==
  \/ MainStart
  \/ \E r \in Requests : FetchSettle(r, "failed")
  \/ LoadAllJoin
  \/ \E protocol \in {"http:"} : MainCatch(protocol)
  \/ RafCallback
  \/ \E ev \in ClickEvents : Click(ev)
  \/ \E t \in nav.timers : NavTimerFire(t)
  \/ NavCommit
  \/ NavTick

NavSpec == NavInit /\ [][NavNext]_vars

\* While the document is there its due timeouts fire and time passes; the
\* navigation a script started commits.  Nothing makes the user click.
NavFairness ==
  /\ WF_vars(MainStart)
  /\ WF_vars(LoadAllJoin)
  /\ WF_vars(\E protocol \in {"http:"} : MainCatch(protocol))
  /\ WF_vars(RafCallback)
  /\ WF_vars(\E t \in nav.timers : NavTimerFire(t))
  /\ WF_vars(NavCommit)
  /\ WF_vars(NavTick)

NavFairSpec == NavSpec /\ NavFairness

----------------------------------------------------------------------------
(* run.ps1: the launcher of the local server, and its PID file *)

\* lines 47-58: the script starts and reads the first line of the PID file
RunRead(r) ==
  /\ host.run[r].pc = "idle"
  /\ host' = [host EXCEPT
                !.run[r].pc = "probe",
                !.run[r].existingPid = ReadPidFile(host.pidFile),
                !.overlap = @ \/ \E q \in Runs \ {r} :
                                     host.run[q].pc \in {"probe", "resolve", "start", "write"}]
  /\ UNCHANGED <<variant, pc, now, ticks, storage, storageWorks, req, timer, bust,
                 loadResult, loadStart, dom, inputs, outcome, log, nav>>

\* lines 59-66: the liveness test; exit 0 when the named process is there
RunProbe(r) ==
  /\ host.run[r].pc = "probe"
  /\ host' = [host EXCEPT
                !.run[r].pc = IF ServerRunning(host.run[r].existingPid, host.procs)
                                THEN "exited" ELSE "resolve",
                !.run[r].named = /\ host.run[r].existingPid \in {PidLine(n) : n \in Pids}
                                 /\ host.procs[host.run[r].existingPid.pid]
                                      \in {"server", "other"}]
  /\ UNCHANGED <<variant, pc, now, ticks, storage, storageWorks, req, timer, bust,
                 loadResult, loadStart, dom, inputs, outcome, log, nav>>

\* line 68: Get-Command python -ErrorAction Stop ends the script when no python
\* is found
RunResolve(r) ==
  /\ host.run[r].pc = "resolve"
  /\ host' = [host EXCEPT !.run[r].pc = IF host.python THEN "start" ELSE "stopped"]
  /\ UNCHANGED <<variant, pc, now, ticks, storage, storageWorks, req, timer, bust,
                 loadResult, loadStart, dom, inputs, outcome, log, nav>>

\* lines 70-72: Start-Process -PassThru; the system gives the server an id that
\* no live process has
RunStart(r, n) ==
  /\ host.run[r].pc = "start"
  /\ host.procs[n] = "free"
  /\ host' = [host EXCEPT
                !.procs[n] = "server",
                !.run[r].pc = "write",
                !.run[r].proc = n,
                !.run[r].started = @ + 1]
  /\ UNCHANGED <<variant, pc, now, ticks, storage, storageWorks, req, timer, bust,
                 loadResult, loadStart, dom, inputs, outcome, log, nav>>

\* lines 74-75: Set-Content replaces the PID file by the id of the new process
RunWrite(r) ==
  /\ host.run[r].pc = "write"
  /\ host' = [host EXCEPT
                !.pidFile = FileWith(PidLine(host.run[r].proc)),
                !.run[r].pc = "done",
                !.run[r].wrote = FileWith(PidLine(host.run[r].proc))]
  /\ UNCHANGED <<variant, pc, now, ticks, storage, storageWorks, req, timer, bust,
                 loadResult, loadStart, dom, inputs, outcome, log, nav>>

\* a process of the machine ends (the server is stopped or crashes)
ProcessExit(n) ==
  /\ host.procs[n] # "free"
  /\ host' = [host EXCEPT !.procs[n] = "free"]
  /\ UNCHANGED <<variant, pc, now, ticks, storage, storageWorks, req, timer, bust,
                 loadResult, loadStart, dom, inputs, outcome, log, nav>>

\* another program starts and gets an id that is free, possibly one a server had
ProcessSpawn(n) ==
  /\ host.procs[n] = "free"
  /\ host' = [host EXCEPT !.procs[n] = "other"]
  /\ UNCHANGED <<variant, pc, now, ticks, storage, storageWorks, req, timer, bust,
                 loadResult, loadStart, dom, inputs, outcome, log, nav>>

RunInit ==
  /\ variant = "plain"
  /\ pc = "start"
  /\ now = Now0
  /\ ticks = 0
  /\ storageWorks = TRUE
  /\ storage = [k \in StorageKeys |-> NoItem]
  /\ req = [r \in Requests |-> "idle"]
  /\ timer = [r \in Requests |-> Disarmed]
  /\ bust = 0
  /\ loadResult = NoResult
  /\ loadStart = [now |-> Now0, item |-> NoItem]
  /\ dom = InitDom(<<>>)
  /\ inputs = Unread
  /\ outcome = NoOutcome(dom)
  /\ log = NoLog
  /\ nav = NoNav
  /\ host \in Hosts

RunNext ==
  \/ \E r \in Runs : RunRead(r)
  \/ \E r \in Runs : RunProbe(r)
  \/ \E r \in Runs : RunResolve(r)
  \/ \E r \in Runs, n \in Pids : RunStart(r, n)
  \/ \E r \in Runs : RunWrite(r)
  \/ \E n \in Pids : ProcessExit(n)
  \/ \E n \in Pids : ProcessSpawn(n)

RunSpec == RunInit /\ [][RunNext]_vars

----------------------------------------------------------------------------
(* Properties *)

\* what the render functions write
Rendered(d) ==
  <<d.dataGrade, d.title, d.cfgTitle, d.cfgSubtitle, d.cfgManaged, d.gradeButtons,
    d.schoolTotal, d.gradeTitle, d.gradeSubtitle, d.groups, d.prefetch, d.back,
    d.groupTitle, d.groupSubtitle, d.students, d.groupTotal, d.clockRunning>>

\* C1: on a cache miss the two requests are issued together and joined; a render
\* function runs only when both responses were successful and both bodies parsed;
\* when a response is not successful (or a request fails) loadAll fails, no render
\* function runs and the page shows nothing of either document.
C1_BothOrNothing ==
  /\ (req["cfg"] = "idle") <=> (req["data"] = "idle")
  /\ (outcome.ran # "none" /\ loadResult.from # "cache") =>
       /\ \A r \in Requests : req[r] = "ok"
       /\ loadResult.kind = "pair" /\ loadResult.from = "network"
       /\ loadResult.cfg \in CfgDocs /\ loadResult.data \in DataDocs
  /\ (\E r \in Requests : req[r] \in {"notok", "failed", "aborted"}) =>
       /\ pc \in {"fetching", "failed", "done"}
       /\ loadResult.kind # "pair"
       /\ outcome.ran = "none"
       /\ Rendered(dom) = Rendered(InitDom(dom.students))
       /\ pc = "done" => loadResult.kind = "error" /\ outcome.threw = "load"

\* C1 witness: the config response is successful, the data response is not, and
\* main has ended in its catch block
C1_Witness ==
  /\ pc = "done"
  /\ req["cfg"] = "ok" /\ req["data"] = "notok"
  /\ outcome.threw = "load"

\* C2: in the TTL variant, loadAll answers from the session cache, with exactly
\* the cached pair and without issuing a request, if and only if the cache holds a
\* well-formed entry (numeric ts, a config and a data document) that is at most
\* 90 seconds old; otherwise both documents are requested.
C2_CacheTtl ==
  (variant = "ttl" /\ pc # "start") =>
    LET it == loadStart.item
        fresh == /\ storageWorks
                 /\ it.kind = "json"
                 /\ it.val.kind = "obj"
                 /\ it.val.tsType = "number"
                 /\ it.val.cfg.kind # "null"
                 /\ it.val.data.kind # "null"
                 /\ loadStart.now - it.val.ts <= 90 * 1000
    IN IF fresh
         THEN /\ loadResult = Pair("cache", it.val.cfg, it.val.data)
              /\ \A r \in Requests : req[r] = "idle"
         ELSE /\ loadResult.from # "cache"
              /\ \A r \in Requests : req[r] # "idle"

\* C2 witness: an entry exactly 90 seconds old was served from the cache and the
\* page load has ended
C2_Witness ==
  /\ variant = "ttl"
  /\ pc = "done"
  /\ loadStart.item.kind = "json"
  /\ loadStart.item.val.kind = "obj"
  /\ loadStart.now - loadStart.item.val.ts = 90 * 1000
  /\ loadResult.from = "cache"

\* a request whose response has not arrived, or whose body loadAll is reading
Outstanding(r) ==
  \/ req[r] = "pending"
  \/ req[r] = "ok" /\ ((r = "cfg" /\ pc = "readCfg") \/ (r = "data" /\ pc = "readData"))

\* C3: in the timeout variant no request of loadAll lasts longer than 12 seconds
\* without being aborted, whether it waits for the response or for the body.
C3_NoRequestOutlastsTimeout ==
  variant = "ttl" =>
    \A r \in Requests : Outstanding(r) => now - loadStart.now <= 12 * 1000

PageReady == "is-ready" \in dom.classes /\ "is-entering" \notin dom.classes

\* C4: on every page load of the timeout variant, where every request has a
\* watchdog, main eventually calls markReady and the page leaves the entering
\* state and reaches the ready state.
C4_EventuallyReady == (variant = "ttl") => <>PageReady

\* main has ended after loadAll returned a pair
DoneLoaded == pc = "done" /\ loadResult.kind = "pair" /\ inputs.read

\* the query parameters as the address gives them
UrlGrade == inputs.search.g
UrlGroup == inputs.search.group
ParamMissing(p) == ~p.present \/ p.val = <<>>

\* the roster main rendered from
Grades == loadResult.data.grades
HasGrade(key) == \E i \in 1..Len(Grades) : Grades[i].key = key
GradeOf(key) == Grades[CHOOSE i \in 1..Len(Grades) : Grades[i].key = key]
HasGroup(grade, id) == \E i \in 1..Len(grade.groups) : grade.groups[i].id = id
GroupOf(grade, id) ==
  grade.groups[CHOOSE i \in 1..Len(grade.groups) : grade.groups[i].id = id]

ErrorShown(message) == ~dom.errorHidden /\ dom.errorText = message

\* C5: every failure raised during a page load, by loadAll or by a render
\* function, is caught by main and ends with a message shown in the error region;
\* main never ends with an uncaught failure.
C5_FailuresCaught ==
  pc = "done" =>
    /\ ~outcome.uncaught
    /\ loadResult.kind = "error" => outcome.threw = "load"
    /\ outcome.threw # "none" =>
         /\ outcome.caught
         /\ ~dom.errorHidden
         /\ dom.errorText \in {MSG_LOCAL, MSG_RETRY}

\* C5 witness: a render function threw (null config document) and main has ended
C5_Witness ==
  /\ pc = "done"
  /\ outcome.threw = "render"
  /\ outcome.ran = "grade"
  /\ ErrorShown(MSG_LOCAL)

\* C6: renderGrade with a grade key that matches no grade of the roster shows the
\* grade-not-found error and leaves the grade title, the grade total, the groups
\* region (still empty), the prefetch hints, the back-link and the document title
\* unchanged.
C6_GradeNotFound ==
  (DoneLoaded /\ outcome.ran = "grade" /\ loadResult.data.kind = "obj"
     /\ ~HasGrade(UrlGrade.val)) =>
    /\ ErrorShown(MSG_GRADE_NOT_FOUND)
    /\ outcome.threw = "none"
    /\ dom.gradeTitle = outcome.before.gradeTitle
    /\ dom.gradeSubtitle = outcome.before.gradeSubtitle
    /\ dom.groups = outcome.before.groups /\ dom.groups = <<>>
    /\ dom.prefetch = outcome.before.prefetch
    /\ dom.back = outcome.before.back
    /\ dom.title = outcome.before.title

\* C6 witness: the grade page was asked for grade x, which the roster lacks
C6_Witness ==
  /\ DoneLoaded /\ outcome.ran = "grade" /\ loadResult.data = RosterA
  /\ UrlGrade = Given(<<"x">>)
  /\ ErrorShown(MSG_GRADE_NOT_FOUND)

\* C7: renderGroup resolves the grade first and the group second: a grade key the
\* roster lacks gives the grade-not-found error whatever the group id, a known
\* grade with a group id it lacks gives the group-not-found error, and in both
\* cases the students table, the group total and the back-link are untouched.
C7_GroupResolution ==
  (DoneLoaded /\ outcome.ran = "group" /\ loadResult.data.kind = "obj") =>
    LET untouched == /\ dom.students = outcome.before.students
                     /\ dom.groupTotal = outcome.before.groupTotal
                     /\ dom.back = outcome.before.back
                     /\ outcome.threw = "none"
    IN /\ ~HasGrade(UrlGrade.val) => ErrorShown(MSG_GRADE_NOT_FOUND) /\ untouched
       /\ (HasGrade(UrlGrade.val) /\ ~HasGroup(GradeOf(UrlGrade.val), UrlGroup.val)) =>
            ErrorShown(MSG_GROUP_NOT_FOUND) /\ untouched

\* C7 witness: grade z exists and has no group q
C7_Witness ==
  /\ DoneLoaded /\ outcome.ran = "group" /\ loadResult.data = RosterA
  /\ UrlGrade = Given(<<"z">>) /\ UrlGroup = Given(<<"q">>)
  /\ ErrorShown(MSG_GROUP_NOT_FOUND)

\* C8: once data has loaded, the grade page without g, and the group page without
\* g or without group (absent or empty), show the missing-parameter error, run no
\* render function and do not throw; the home page needs no parameter.
C8_MissingParameter ==
  DoneLoaded =>
    /\ (inputs.attr = Attr("grade") /\ ParamMissing(UrlGrade)) =>
         ErrorShown(MSG_MISSING_GRADE) /\ outcome.ran = "none" /\ outcome.threw = "none"
    /\ (inputs.attr = Attr("group") /\ (ParamMissing(UrlGrade) \/ ParamMissing(UrlGroup))) =>
         ErrorShown(MSG_MISSING_DETAILS) /\ outcome.ran = "none" /\ outcome.threw = "none"
    /\ inputs.attr = Attr("home") => outcome.ran = "home"

\* C8 witness: the group page with g=z and no group parameter
C8_Witness ==
  /\ DoneLoaded
  /\ inputs.attr = Attr("group")
  /\ UrlGrade = Given(<<"z">>) /\ UrlGroup = Absent
  /\ ErrorShown(MSG_MISSING_DETAILS)

\* C9: the page marker alone selects the page kind: home runs only renderHome,
\* grade only renderGrade, group only renderGroup, and any other marker, a missing
\* one included, runs no render function and shows the page-not-supported error.
C9_MarkerSelectsPage ==
  DoneLoaded =>
    /\ outcome.ran = "home" <=> inputs.attr = Attr("home")
    /\ outcome.ran = "grade" <=> (inputs.attr = Attr("grade") /\ ~ParamMissing(UrlGrade))
    /\ outcome.ran = "group" <=>
         (inputs.attr = Attr("group") /\ ~ParamMissing(UrlGrade) /\ ~ParamMissing(UrlGroup))
    /\ inputs.attr \notin {Attr("home"), Attr("grade"), Attr("group")} =>
         outcome.ran = "none" /\ outcome.threw = "none" /\ ErrorShown(MSG_UNSUPPORTED)

\* C9 witness: a page without marker has been loaded
C9_Witness ==
  /\ DoneLoaded
  /\ inputs.attr = AbsentAttr
  /\ UrlGrade = Given(<<"z">>)
  /\ ErrorShown(MSG_UNSUPPORTED)

\* the characters of s before the first "&"
RECURSIVE UpToAmp(_)
UpToAmp(s) ==
  IF s = <<>> \/ Head(s) = "&" THEN <<>> ELSE <<Head(s)>> \o UpToAmp(Tail(s))

PercentChar(a, b) ==
  CASE a = "2" /\ b = "6" -> "&"
    [] a = "2" /\ b = "5" -> "%"
    [] a = "3" /\ b = "D" -> "="
    [] OTHER -> "?"

\* percent-decoding, as the browser decodes a query value
RECURSIVE UrlDecode(_)
UrlDecode(s) ==
  IF s = <<>> THEN <<>>
  ELSE IF Head(s) = "%" /\ Len(s) >= 3
    THEN <<PercentChar(s[2], s[3])>> \o UrlDecode(SubSeq(s, 4, Len(s)))
    ELSE <<Head(s)>> \o UrlDecode(Tail(s))

\* the grade key a grade-page address carries in its g parameter
GradePageKey(href) == UrlDecode(UpToAmp(Tail(href)))

\* C10: for a resolved group with k students, renderGroup leaves a students table
\* of exactly k rows, row i carrying the number i and the i-th name, whatever rows
\* were there before, a group total of k, and a back-link to the grade page of the
\* same grade key.
C10_GroupTable ==
  (DoneLoaded /\ outcome.ran = "group" /\ loadResult.data.kind = "obj"
     /\ HasGrade(UrlGrade.val) /\ HasGroup(GradeOf(UrlGrade.val), UrlGroup.val)) =>
    LET names == GroupOf(GradeOf(UrlGrade.val), UrlGroup.val).students
        k == Len(names)
    IN /\ Len(dom.students) = k
       /\ \A i \in 1..k : dom.students[i].num = i /\ dom.students[i].name = names[i]
       /\ dom.groupTotal = <<k>>
       /\ Head(dom.back) = "grade.html?g="
       /\ GradePageKey(dom.back) = UrlGrade.val

\* C10 witness: group a of grade z (three students) rendered into a table that
\* held a row before
C10_Witness ==
  /\ DoneLoaded /\ outcome.ran = "group" /\ loadResult.data = RosterA
  /\ UrlGrade = Given(<<"z">>) /\ UrlGroup = Given(<<"a">>)
  /\ outcome.before.students # <<>>
  /\ Len(dom.students) = 3

\* the home page was rendered and renderHome returned
HomeRendered == DoneLoaded /\ outcome.ran = "home" /\ outcome.threw = "none"

\* one element per student of the grade: the pairs (group, position in the group)
StudentSlots(grade) ==
  UNION {{<<i, j>> : j \in 1..Len(grade.groups[i].students)} :
           i \in 1..Len(grade.groups)}

\* one element per student of the roster
SchoolSlots(data) ==
  UNION {{<<g, s>> : s \in StudentSlots(data.grades[g])} : g \in 1..Len(data.grades)}

\* whether a prefetch hint for the address is on the page
Hinted(href) == \E j \in 1..Len(dom.prefetch) : dom.prefetch[j] = href

\* C11 as stated: after renderHome the home page has exactly one entry per grade
\* of the roster, in roster order, each with that grade's label, its computed
\* size and a link to the grade page of that grade's key, and a prefetch hint
\* for each of these grade pages.
C11_EntryPerGrade ==
  HomeRendered =>
    /\ Len(dom.gradeButtons) = Len(Grades)
    /\ \A i \in 1..Len(Grades) :
         /\ dom.gradeButtons[i].title = Grades[i].label
         /\ dom.gradeButtons[i].count = Cardinality(StudentSlots(Grades[i]))
         /\ Head(dom.gradeButtons[i].href) = "grade.html?g="
         /\ GradePageKey(dom.gradeButtons[i].href) = Grades[i].key
         /\ Hinted(dom.gradeButtons[i].href)

\* C11 amended: after renderHome the home page has exactly three entries, for
\* the keys z, h, t in this order whatever the roster holds, each linking to the
\* grade page of its key, with a prefetch hint for each; an entry whose key is a
\* grade of the roster shows that grade's label and computed size, an entry whose
\* key the roster lacks shows the default label and 0.  For a roster whose grades
\* are z, h, t in this order this is one entry per grade in roster order.
C11_HomeEntries ==
  HomeRendered =>
    /\ Len(dom.gradeButtons) = 3
    /\ \A i \in 1..3 :
         LET k == << <<"z">>, <<"h">>, <<"t">> >>[i]
             e == dom.gradeButtons[i]
         IN /\ Head(e.href) = "grade.html?g="
            /\ GradePageKey(e.href) = k
            /\ Hinted(e.href)
            /\ HasGrade(k) =>
                 e.title = GradeOf(k).label /\ e.count = Cardinality(StudentSlots(GradeOf(k)))
            /\ ~HasGrade(k) => e.title = "grade" /\ e.count = 0
    /\ [i \in 1..Len(Grades) |-> Grades[i].key] = << <<"z">>, <<"h">>, <<"t">> >> =>
         \A i \in 1..3 : dom.gradeButtons[i].title = Grades[i].label

\* C11 witness: the home page of a roster with the grades z and h& shows three
\* entries, the second and third with the default label
C11_Witness ==
  /\ HomeRendered /\ loadResult.data = RosterA
  /\ Len(dom.gradeButtons) = 3
  /\ dom.gradeButtons[2].title = "grade" /\ dom.gradeButtons[3].count = 0

\* C12: the school total renderHome shows is the number of students of all
\* groups of all grades of the roster, that is the sum of the grade sizes; for a
\* roster with the grades z, h, t it is the sum of the three counts the home page
\* shows.
C12_SchoolTotal ==
  HomeRendered =>
    /\ dom.schoolTotal = <<Cardinality(SchoolSlots(loadResult.data))>>
    /\ dom.schoolTotal =
         <<SumSeq([g \in 1..Len(Grades) |-> Cardinality(StudentSlots(Grades[g]))])>>
    /\ ({Grades[i].key : i \in 1..Len(Grades)} = {<<"z">>, <<"h">>, <<"t">>}
          /\ Len(Grades) = 3) =>
         dom.schoolTotal = <<dom.gradeButtons[1].count + dom.gradeButtons[2].count
                               + dom.gradeButtons[3].count>>

\* C12 witness: the home page of the roster with grades z, h, t (0, 2 and 3
\* students) shows a school total of 5
C12_Witness ==
  /\ HomeRendered /\ loadResult.data = RosterC
  /\ dom.schoolTotal = <<5>>
  /\ dom.gradeButtons[3].count = 3

\* the grade page was rendered for a grade the roster has
GradeRendered ==
  /\ DoneLoaded /\ outcome.ran = "grade" /\ loadResult.data.kind = "obj"
  /\ HasGrade(UrlGrade.val)

\* C13: the grade size renderGrade shows is the sum over the grade's groups of
\* the length of the group's students sequence, and it is the sum of the counts
\* shown in the group entries, each the length of that group's sequence; a grade
\* whose groups are all empty shows 0, and rendering it does not fail.
C13_GradeSize ==
  GradeRendered =>
    LET g == GradeOf(UrlGrade.val) IN
    /\ dom.gradeSubtitle = <<Cardinality(StudentSlots(g))>>
    /\ Len(dom.groups) = Len(g.groups)
    /\ \A i \in 1..Len(g.groups) : dom.groups[i].count = Len(g.groups[i].students)
    /\ dom.gradeSubtitle = <<SumSeq([i \in 1..Len(dom.groups) |-> dom.groups[i].count])>>
    /\ (\A i \in 1..Len(g.groups) : g.groups[i].students = <<>>) =>
         /\ dom.gradeSubtitle = <<0>>
         /\ loadResult.cfg.kind = "obj" => outcome.threw = "none"

\* C13 witness: the grade page of grade z of the roster where both groups of z
\* are empty
C13_Witness ==
  /\ GradeRendered /\ loadResult.data = RosterC
  /\ UrlGrade = Given(<<"z">>)
  /\ Len(dom.groups) = 2
  /\ dom.gradeSubtitle = <<0>>

\* the conditions loadAll raises for a response that is not successful, and for a
\* body that is not a valid document
FetchFailedConditions == {"cfg fetch failed", "data fetch failed", "fetch failed"}
ParseFailedConditions == {"cfg json parse failed", "data json parse failed", "SyntaxError"}

\* C17: when both responses are successful and a body does not parse, loadAll
\* fails with a parse condition (in the timeout variant one that names the
\* document), never with the condition raised for a response that is not
\* successful; and a response that is not successful raises a fetch-failed
\* condition, never a parse condition.
C17_ParseFailedDistinct ==
  [][/\ (pc = "readCfg" /\ pc' = "failed") =>
          /\ loadResult'.kind = "error"
          /\ loadResult'.error \in ParseFailedConditions \ FetchFailedConditions
          /\ variant = "ttl" => loadResult'.error = "cfg json parse failed"
     /\ (pc = "readData" /\ pc' = "failed") =>
          /\ loadResult'.kind = "error"
          /\ loadResult'.error \in ParseFailedConditions \ FetchFailedConditions
          /\ variant = "ttl" => loadResult'.error = "data json parse failed"
     /\ (pc = "fetching" /\ pc' = "failed" /\ \A r \in Requests : req[r] \in {"ok", "notok"}) =>
          /\ loadResult'.kind = "error"
          /\ loadResult'.error \in FetchFailedConditions \ ParseFailedConditions
    ]_vars

\* C17 witness: both responses were successful, the config body parsed, the data
\* body did not, and main has ended in its catch block
C17_Witness ==
  /\ pc = "done"
  /\ \A r \in Requests : req[r] = "ok"
  /\ loadResult.kind = "error"
  /\ loadResult.error \in {"data json parse failed", "SyntaxError"}

\* C18: when loading the data fails, the local-server message is shown if and
\* only if the page is accessed with the protocol file:, and the retry message in
\* every other case.
C18_ProtocolMessage ==
  (pc = "done" /\ outcome.threw = "load") =>
    IF inputs.protocol = "file:" THEN ErrorShown(MSG_LOCAL) ELSE ErrorShown(MSG_RETRY)

\* a step in which getSessionBust is called
BustCall == Len(log'.tokens) = Len(log.tokens) + 1

\* when the token was created: the time of the first call that returned it
TokenCreated(tokens, v) ==
  tokens[CHOOSE i \in 1..Len(tokens) :
           tokens[i].v = v /\ \A j \in 1..(i - 1) : tokens[j].v # v].at

\* C14 as stated: a call of getSessionBust made within 10 minutes of the creation
\* of the session's current token returns that token, a call made more than 10
\* minutes after its creation returns a new token, and both URLs of the load
\* carry the token the call returned.
C14_BustWindow ==
  [][BustCall =>
       /\ bust' = log'.tokens[Len(log'.tokens)].v
       /\ \A r \in Requests : req'[r] = "pending"
       /\ log.tokens # <<>> =>
            LET cur == log.tokens[Len(log.tokens)].v
                called == log'.tokens[Len(log'.tokens)].at
                age == called - TokenCreated(log.tokens, cur)
            IN /\ age <= 10 * 60 * 1000 => bust' = cur
               /\ age > 10 * 60 * 1000 => bust' # cur
    ]_vars

\* C14 amended: while sessionStorage is usable the token is stable as stated (same
\* token up to and including 10 minutes after its creation, a new one after
\* that); when sessionStorage throws no token is kept and every call returns a
\* new token, the time of the call; in both cases the two URLs of one load carry
\* the same token.
C14_BustStable ==
  [][BustCall =>
       /\ bust' = log'.tokens[Len(log'.tokens)].v
       /\ \A r \in Requests : req'[r] = "pending"
       /\ ~storageWorks => bust' = now
       /\ (storageWorks /\ log.tokens # <<>>) =>
            LET cur == log.tokens[Len(log.tokens)].v
                called == log'.tokens[Len(log'.tokens)].at
                age == called - TokenCreated(log.tokens, cur)
            IN /\ age <= 10 * 60 * 1000 => bust' = cur
               /\ age > 10 * 60 * 1000 => bust' # cur
    ]_vars

\* C14 witness: with sessionStorage usable, a call made exactly 10 minutes after
\* the token was created returned the same token
C14_Witness ==
  /\ storageWorks
  /\ \E i, j \in 1..Len(log.tokens) :
       /\ log.tokens[j].at - log.tokens[i].at = 10 * 60 * 1000
       /\ log.tokens[j].v = log.tokens[i].v
       /\ log.tokens[i].v = log.tokens[i].at
  /\ bust = log.tokens[1].v

\* the items of the config/data cache, by variant
CacheItems == <<storage[SESSION_CACHE_KEY], storage[CACHE_CFG_KEY], storage[CACHE_DATA_KEY]>>

\* the items that hold exactly the pair loadAll returned
HoldsPair(st, t0, res) ==
  CASE variant = "ttl" ->
         st[SESSION_CACHE_KEY] = JsonItem(CacheEntry("number", t0, res.cfg, res.data))
    [] variant = "session" ->
         st[CACHE_CFG_KEY] = JsonItem(res.cfg) /\ st[CACHE_DATA_KEY] = JsonItem(res.data)
    [] OTHER -> TRUE

\* C15: once both bodies are parsed loadAll returns the freshly fetched pair,
\* whether the cache write succeeded or threw: with usable storage the cache then
\* holds exactly that pair, with storage that throws nothing is stored, and in
\* both cases loadAll does not fail and main does not end in a load error.
C15_CacheWriteBestEffort ==
  [][/\ (pc = "readData" /\ pc' # "readData" /\ HasCache(variant)) =>
          \/ /\ pc' = "failed"
             /\ loadResult'.error \in ParseFailedConditions
             /\ storage' = storage
          \/ /\ pc' = "loaded"
             /\ loadResult'.kind = "pair" /\ loadResult'.from = "network"
             /\ loadResult'.cfg = loadResult.cfg
             /\ loadResult'.data \in DataDocs
             /\ IF storageWorks THEN HoldsPair(storage', loadStart.now, loadResult')
                                ELSE storage' = storage
     /\ (pc = "loaded" /\ pc' = "done") => outcome'.threw # "load"
    ]_vars

\* C15 witness: sessionStorage throws, the pair was fetched, and main has rendered
\* the home page from it
C15_Witness ==
  /\ HasCache(variant) /\ ~storageWorks
  /\ pc = "done" /\ loadResult.kind = "pair" /\ loadResult.from = "network"
  /\ log.writes = 1
  /\ outcome.ran = "home" /\ outcome.threw = "none"

ClickStep == nav'.clicks = nav.clicks + 1

NoModifier(ev) == ~ev.metaKey /\ ~ev.ctrlKey /\ ~ev.shiftKey /\ ~ev.altKey

\* the kinds of click the helper is to leave alone
ExternalClick(ev) == ev.onAnchor /\ ev.a.href.origin \notin {"", "http://site"}
OtherTargetClick(ev) == ev.onAnchor /\ ev.a.target \notin {"", "_self"}
DownloadClick(ev) == ev.onAnchor /\ ev.a.download
FragmentOnlyClick(ev) ==
  /\ ev.onAnchor
  /\ ev.a.href.origin = "" /\ ev.a.href.path = <<>> /\ ev.a.href.query = ""
  /\ ev.a.href.hash # ""

PassThroughClick(ev) ==
  \/ ExternalClick(ev) \/ OtherTargetClick(ev) \/ DownloadClick(ev) \/ FragmentOnlyClick(ev)
  \/ ev.button # 0
  \/ ~NoModifier(ev)

\* a primary click without modifier key on a same-origin anchor to a page of the
\* site, that is none of the kinds to leave alone
SitePageClick(ev) ==
  /\ ev.onAnchor /\ ~ev.defaultPrevented
  /\ ev.button = 0 /\ NoModifier(ev)
  /\ ev.a.href.valid
  /\ ev.a.href.origin \in {"", "http://site"}
  /\ ev.a.href.path # <<>> /\ ev.a.href.path[Len(ev.a.href.path)] = ".html"
  /\ ~PassThroughClick(ev)

\* C19: a primary click without modifier key on a same-origin anchor to another
\* page of the site is intercepted: the default navigation is suppressed, the
\* leaving marker is applied and a navigation to the anchor's resolved address is
\* scheduled after the variant's delay (60 ms or 120 ms); a programmatic
\* navigation starts only on a page that carries the leaving marker; and every
\* intercepted click is eventually followed by a navigation to its address.
C19_InterceptedNavigates ==
  /\ [][(ClickStep /\ SitePageClick(nav'.last.ev)) =>
          /\ nav'.last.prevented
          /\ "is-leaving" \in dom'.classes
          /\ \E t \in nav'.timers \ nav.timers :
               /\ t.id = nav'.clicks
               /\ t.at = now + (IF variant = "ttl" THEN 60 ELSE 120)
               /\ t.url.origin = "http://site"
               /\ t.url.path = nav'.last.ev.a.href.path
               /\ t.url.query = nav'.last.ev.a.href.query
       ]_vars
  /\ [][(nav'.going # nav.going /\ nav'.going # NoUrl) => "is-leaving" \in dom.classes]_vars
  /\ \A c \in 1..MaxClicks :
       (\E t \in nav.timers : t.id = c) ~> (c \in nav.served)

\* C20: a click on an external link, on an anchor with a target other than
\* _self, on a download anchor or on a fragment-only link, and a click with
\* another button or with a modifier key, is passed through: the handler does
\* not suppress the default action, leaves the page (its leaving marker
\* included) as it was and schedules no navigation.
C20_PassThrough ==
  [][(ClickStep /\ PassThroughClick(nav'.last.ev)) =>
       /\ ~nav'.last.prevented
       /\ dom' = dom
       /\ nav'.timers = nav.timers
       /\ nav'.going = nav.going
       /\ nav'.location = nav.location
    ]_vars

\* C20 witness: the only click the page has seen was on a download anchor to a
\* page of the site; it was not suppressed and the page is not leaving
C20_Witness ==
  /\ nav.clicks = 1
  /\ nav.last.ev = PrimaryClick(DownloadLink)
  /\ ~nav.last.prevented
  /\ "is-leaving" \notin dom.classes
  /\ nav.timers = {}

\* loadAll has returned a pair in the current page load
PairReturned == pc \in {"loaded", "done"} /\ loadResult.kind = "pair"

\* a step in which loadAll answers from the cache
CacheHitStep == pc = "start" /\ pc' = "loaded"

\* C21: in the timeout variant, over the page loads of one session, the pair
\* loadAll returns was obtained from the network by a load that started at most
\* 90 seconds before the current load; a cache hit leaves the entry and its
\* timestamp as they were; and the timestamp written with an entry is the time
\* the load started, when the requests were issued, not the time of the write.
C21_TtlDoesNotSlide ==
  /\ [](PairReturned =>
          /\ log.fetched.some
          /\ log.fetched.cfg = loadResult.cfg
          /\ log.fetched.data = loadResult.data
          /\ loadStart.now - log.fetched.at >= 0
          /\ loadStart.now - log.fetched.at <= 90 * 1000)
  /\ [][CacheHitStep => storage' = storage]_vars
  /\ [][storage'[SESSION_CACHE_KEY] # storage[SESSION_CACHE_KEY] =>
          /\ log.tokens # <<>>
          /\ storage'[SESSION_CACHE_KEY].kind = "json"
          /\ storage'[SESSION_CACHE_KEY].val.tsType = "number"
          /\ storage'[SESSION_CACHE_KEY].val.ts = log.tokens[Len(log.tokens)].at
          /\ storage'[SESSION_CACHE_KEY].val.ts <= now
       ]_vars

\* C21 witness: the third load of a session is answered from the cache with the
\* pair the first load fetched; the clock moved while the first load waited, and
\* the entry still carries the time the first load started
C21_Witness ==
  /\ log.loads = 3
  /\ ticks > 0
  /\ pc = "loaded"
  /\ loadResult.from = "cache"
  /\ log.fetched.at = Now0
  /\ loadStart.now > Now0 + TickMs
  /\ storage[SESSION_CACHE_KEY].val.ts = Now0
  /\ loadResult.data = log.fetched.data

\* the server processes that are alive
LiveServers == {n \in Pids : host.procs[n] = "server"}

\* the run of run.ps1 has ended: exit 0, Get-Command's error, or the last line
Terminated(r) == host.run[r].pc \in {"exited", "stopped", "done"}

\* what one run does, given what it found: with a PID file that named a live
\* process it starts nothing and writes nothing; otherwise it starts one server
\* and writes that server's id
RunKeepsOrStarts(r) ==
  /\ host.run[r].started <= 1
  /\ host.run[r].named => host.run[r].started = 0 /\ host.run[r].wrote = NoFile
  /\ Terminated(r) =>
       IF host.run[r].named
         THEN host.run[r].pc = "exited"
         ELSE /\ host.run[r].started = 1
              /\ host.run[r].wrote = FileWith(PidLine(host.run[r].proc))

\* a run writes the PID file: the file then holds the id of the process the run
\* started, and nothing else
RunOverwrites(r) ==
  host'.run[r].wrote # host.run[r].wrote =>
    /\ host.run[r].started = 1
    /\ host.run[r].proc \in Pids
    /\ host'.pidFile = FileWith(PidLine(host.run[r].proc))

\* as long as no two runs of run.ps1 have overlapped, at most one server is alive
SingleInstanceWhenApart == ~host.overlap => Cardinality(LiveServers) <= 1

\* C22: run.ps1 keeps a single server instance through the PID file: at most one
\* server is alive; a run that finds a PID file naming a live process exits
\* without starting a server and without writing the PID file; in every other
\* case (no PID file, empty PID file, id of a process that is not alive) the run
\* starts exactly one server and overwrites the PID file with that server's id.
C22_SingleInstance ==
  /\ [](Cardinality(LiveServers) <= 1)
  /\ [](\A r \in Runs : RunKeepsOrStarts(r))
  /\ [][\A r \in Runs : RunOverwrites(r)]_vars

====
